---------------------------- MODULE Spec2Model ----------------------------
(***************************************************************************)
(* Model of the synthetic signal dashboard:                                *)
(*   src/signal_generator.py  the level-of-detail planner and the          *)
(*                            historical series builder,                   *)
(*   src/app.py               the query interpreter, the trace builder and *)
(*                            the chart callback.                          *)
(*                                                                         *)
(* Units.  An instant is a whole number of seconds of wall-clock time; a   *)
(* datetime is an instant plus its tzinfo (none, or a UTC offset in        *)
(* minutes).  A signal value is a whole number of hundredths (the code     *)
(* rounds every value it stores to 2 decimals); a raw gaussian draw is a   *)
(* whole number of thousandths, so that rounding to 2 decimals acts.       *)
(* A string the code splits is the sequence of its atoms, the separators   *)
(* "," and "_" being atoms of their own: "Pressure_A1" is                  *)
(* <<"Pressure", "_", "A1">>.                                              *)
(***************************************************************************)
EXTENDS Integers, Sequences, FiniteSets, TLC

VARIABLES
    plan,        \* what the last get_aggregation_level call was given and returned
    call,        \* the arguments of the last direct generate_historical_signals call
    result,      \* what that call returned (or raised), with the draws it consumed
    previous,    \* what the call before it returned, when it had the same arguments
    rng,         \* the random source: the deviates it yields, and how far it is
    search,      \* the url component's search property, as its parameters
    now,         \* the wall clock, in seconds
    n_intervals, \* the interval component's n_intervals property
    disabled,    \* the interval component's disabled property
    pending,     \* whether an update_chart callback is due
    update       \* what the last update_chart call did

vars == <<plan, call, result, previous, rng, search, now, n_intervals, disabled, pending, update>>

genvars == <<plan, call, result, previous>>

appvars == <<search, now, n_intervals, disabled, pending, update>>

---------------------------------------------------------------------------
(* Bounds of the model *)

\* the random source of one call repeats its deviations with this period
RngPeriod == 3

\* spans are taken up to this many seconds on either side of each threshold
Slack == 1

\* a request names at most this many signal ids
MaxIds == 2

\* the polling timer fires at most this many times
MaxTicks == 1

---------------------------------------------------------------------------
(* datetime and timedelta *)

SecondsPerDay == 86400

\* a datetime: its reading in seconds and its tzinfo, None or UTC
NaiveAt(t) == [t |-> t, aware |-> FALSE]

AwareAt(t) == [t |-> t, aware |-> TRUE]

\* datetime - datetime and datetime < datetime raise TypeError when one is
\* naive and the other aware
Mixed(a, b) == a.aware # b.aware

\* datetime - datetime, in seconds
Minus(a, b) == a.t - b.t

\* datetime < datetime
Before(a, b) == a.t < b.t

\* datetime + timedelta(seconds=s): the tzinfo is kept
PlusSeconds(dt, s) == [dt EXCEPT !.t = dt.t + s]

\* timedelta.days: the whole days of the span, rounded towards minus infinity
Days(duration) == duration \div SecondsPerDay

\* datetime.isoformat(): the date, the time of day, and "+00:00" if aware
isoformat(dt) ==
    [date |-> dt.t \div SecondsPerDay, time |-> dt.t % SecondsPerDay,
     zone |-> IF dt.aware THEN "+00:00" ELSE ""]

\* whether datetime.fromisoformat() takes the string
WellFormed(s) == s.zone \in {"", "+00:00"} /\ s.time \in 0..(SecondsPerDay - 1)

\* datetime.fromisoformat() of a string it takes
fromisoformat(s) ==
    [t |-> s.date * SecondsPerDay + s.time, aware |-> s.zone = "+00:00"]

\* str.split(sep)
RECURSIVE Split(_, _)
Split(s, sep) ==
    IF \A i \in DOMAIN s : s[i] # sep THEN <<s>>
    ELSE LET i == CHOOSE i \in DOMAIN s : s[i] = sep /\ \A j \in 1..(i - 1) : s[j] # sep
         IN  <<SubSeq(s, 1, i - 1)>> \o Split(SubSeq(s, i + 1, Len(s)), sep)

---------------------------------------------------------------------------
(* signal_generator.py *)

\* the mutant takes a span that equals a threshold as exceeding it
get_aggregation_level_off_by_one(duration) ==
    IF Days(duration) >= 365 THEN <<7 * 24 * 60 * 60, "weekly", 7>>
    ELSE IF Days(duration) >= 7 THEN <<24 * 60 * 60, "daily", 6>>
    ELSE IF Days(duration) >= 1 THEN <<60 * 60, "hourly", 4>>
    ELSE <<60, "minutely", 2>>

\* the mutant tests the thresholds from the smallest up
get_aggregation_level_reordered(duration) ==
    IF Days(duration) <= 1 THEN <<60, "minutely", 2>>
    ELSE IF Days(duration) > 1 THEN <<60 * 60, "hourly", 4>>
    ELSE IF Days(duration) > 7 THEN <<24 * 60 * 60, "daily", 6>>
    ELSE <<7 * 24 * 60 * 60, "weekly", 7>>

get_aggregation_level(duration) ==
    IF Days(duration) > 365 THEN <<7 * 24 * 60 * 60, "weekly", 7>>
    ELSE IF Days(duration) > 7 THEN <<24 * 60 * 60, "daily", 6>>
    ELSE IF Days(duration) > 1 THEN <<60 * 60, "hourly", 4>>
    ELSE <<60, "minutely", 2>>

\* signal_base_values and its .get(..., 50) default
signal_base_values(key) ==
    CASE key = <<"Temperature">> -> 20
      [] key = <<"Humidity">> -> 60
      [] key = <<"Pressure">> -> 1013
      [] key = <<"Power">> -> 500
      [] key = <<"Flow">> -> 100
      [] OTHER -> 50

\* signal_id.split('_')[0] if '_' in signal_id else signal_id
BaseKey(signal_id) ==
    IF \E i \in DOMAIN signal_id : signal_id[i] = "_"
    THEN Split(signal_id, "_")[1]
    ELSE signal_id

\* round(x, 2) of x thousandths, in hundredths.  A float that prints as an
\* exact tie rounds up or down with its binary expansion: half_up says which.
Round2(x, half_up) ==
    LET q == x \div 10
        r == x % 10
    IN  IF r < 5 THEN q ELSE IF r > 5 THEN q + 1 ELSE IF half_up THEN q + 1 ELSE q

\* round(total / n, 2) for a total in hundredths, in hundredths
RoundDiv(total, n, half_up) ==
    LET q == total \div n
        r == total % n
    IN  IF 2 * r < n THEN q ELSE IF 2 * r > n THEN q + 1
        ELSE IF half_up THEN q + 1 ELSE q

\* random.gauss(mu, sigma) = mu + sigma * z, in thousandths; z is the standard
\* normal deviate the generator yields, in ten-thousandths
gauss(mu, sigma, z) == mu * 1000 + (sigma * z) \div 10

\* calculate_average_value
calculate_average_value(base_value, variance, z, half_up) ==
    Round2(gauss(base_value, variance, z), half_up)

Min2(a, b) == IF a < b THEN a ELSE b

Max2(a, b) == IF a > b THEN a ELSE b

\* the mutant leaves the sample unclamped
ClampSample_none(sample_value) == sample_value

\* max(0, min(100, sample_value))
ClampSample(sample_value) == Max2(0, Min2(100 * 100, sample_value))

\* the status of one sample
SampleStatus(sample_value) ==
    IF sample_value > 90 * 100 THEN "critical"
    ELSE IF sample_value > 60 * 100 THEN "high"
    ELSE "normal"

\* the deviate of the i-th draw (from 0) of a call: the generator goes on from
\* where the draws before left it (random.pos counts them)
Draw(random, i) == random.draws[((random.pos + i) % Len(random.draws)) + 1]

\* the random source after n more draws
Advance(random, n) == [random EXCEPT !.pos = (random.pos + n) % Len(random.draws)]

\* the sample_values of the k-th loop iteration (from 0): the inner for loop
SampleValues(base_value, samples_per_interval, random, k) ==
    [j \in 1..samples_per_interval |->
        ClampSample(calculate_average_value(
            base_value, 10, Draw(random, k * samples_per_interval + j - 1),
            random.half_up))]

RECURSIVE SeqSum(_)
SeqSum(s) == IF s = <<>> THEN 0 ELSE s[1] + SeqSum(Tail(s))

SeqMin(s) == CHOOSE x \in {s[i] : i \in DOMAIN s} : \A i \in DOMAIN s : x <= s[i]

SeqMax(s) == CHOOSE x \in {s[i] : i \in DOMAIN s} : \A i \in DOMAIN s : x >= s[i]

\* sample_statuses.count(status)
StatusCount(sample_values, status) ==
    Cardinality({i \in DOMAIN sample_values : SampleStatus(sample_values[i]) = status})

\* the mutant decides on the average, as the comment above the code says
AggregateStatus_by_mean(sample_values, samples_per_interval) ==
    IF SeqSum(sample_values) > 90 * 100 * samples_per_interval THEN "critical"
    ELSE IF SeqSum(sample_values) > 60 * 100 * samples_per_interval THEN "high"
    ELSE "normal"

\* the status of an aggregate: count > samples_per_interval * 0.3.  The products
\* 0.6, 1.2, 1.8 and 2.1 are no whole numbers, so the float product decides as
\* the exact one does.
AggregateStatus(sample_values, samples_per_interval) ==
    IF 10 * StatusCount(sample_values, "critical") > 3 * samples_per_interval
    THEN "critical"
    ELSE IF 10 * StatusCount(sample_values, "high") > 3 * samples_per_interval
    THEN "high"
    ELSE "normal"

\* avg_value = round(sum(sample_values) / len(sample_values), 2)
AverageValue(sample_values, half_up) ==
    RoundDiv(SeqSum(sample_values), Len(sample_values), half_up)

\* the mutant counts the distinct samples
SignalPoint_distinct_count(signal_id, current_time, level_name, samples_per_interval, sample_values, half_up) ==
    [id |-> signal_id,
     timestamp |-> isoformat(current_time),
     value |-> AverageValue(sample_values, half_up),
     status |-> AggregateStatus(sample_values, samples_per_interval),
     aggregation_level |-> level_name,
     sample_count |-> Cardinality({sample_values[j] : j \in DOMAIN sample_values}),
     min_value |-> Round2(10 * SeqMin(sample_values), half_up),
     max_value |-> Round2(10 * SeqMax(sample_values), half_up)]

\* the dict appended by one loop iteration; the stored bounds are round(.., 2)
\* of values that are whole hundredths already
SignalPoint(signal_id, current_time, level_name, samples_per_interval, sample_values, half_up) ==
    [id |-> signal_id,
     timestamp |-> isoformat(current_time),
     value |-> AverageValue(sample_values, half_up),
     status |-> AggregateStatus(sample_values, samples_per_interval),
     aggregation_level |-> level_name,
     sample_count |-> samples_per_interval,
     min_value |-> Round2(10 * SeqMin(sample_values), half_up),
     max_value |-> Round2(10 * SeqMax(sample_values), half_up)]

\* the mutant runs the loop up to and including end_time
LoopGuard_le(current_time, end_time) == ~Before(end_time, current_time)

\* while current_time < end_time
LoopGuard(current_time, end_time) == Before(current_time, end_time)

\* the mutant advances current_time before the point is built
StepTime_advanced(start_time, k, interval_seconds) ==
    PlusSeconds(start_time, (k + 1) * interval_seconds)

\* current_time in iteration k (from 0): start_time, after k passes of
\* current_time += timedelta(seconds=interval_seconds)
StepTime(start_time, k, interval_seconds) ==
    PlusSeconds(start_time, k * interval_seconds)

\* The loop iterations that run, numbered from 0.  current_time is start_time
\* plus k intervals in iteration k and only grows, so the iterations that run
\* are those whose current_time passes the guard; none can beyond
\* duration / interval_seconds.
LoopIterations(start_time, end_time, interval_seconds) ==
    {k \in 0..Max2(0, Minus(end_time, start_time) \div interval_seconds) :
        LoopGuard(StepTime(start_time, k, interval_seconds), end_time)}

\* what a call returns: the exception it raised ("" for none), the value it
\* returned, and the number of samples it drew
Returned(ret, ndraws) == [exc |-> "", ret |-> ret, ndraws |-> ndraws]

Raised(exc) == [exc |-> exc, ret |-> <<>>, ndraws |-> 0]

generate_historical_signals(signal_id, start_time, end_time, random) ==
    IF Mixed(end_time, start_time) THEN Raised("TypeError")
    ELSE
    LET duration == Minus(end_time, start_time)
        level == get_aggregation_level(duration)
        interval_seconds == level[1]
        level_name == level[2]
        samples_per_interval == level[3]
        base_value == signal_base_values(BaseKey(signal_id))
        count == Cardinality(LoopIterations(start_time, end_time, interval_seconds))
    IN  Returned(
            [i \in 1..count |->
                SignalPoint(signal_id,
                            StepTime(start_time, i - 1, interval_seconds),
                            level_name, samples_per_interval,
                            SampleValues(base_value, samples_per_interval, random, i - 1),
                            random.half_up)],
            count * samples_per_interval)

---------------------------------------------------------------------------
(* app.py *)

COLOR_PALETTE ==
    <<"#2563eb", "#dc2626", "#16a34a", "#d97706", "#8b5cf6", "#ec4899", "#06b6d4", "#f59e0b">>

DEFAULT_HOURS == 24

\* ALPHA_TRANSPARENCY = 0.1, in hundredths
ALPHA_TRANSPARENCY == 10

\* dcc.Interval(interval=2000), in seconds
PollSeconds == 2

\* the names THEME_DEFINITIONS holds, each with a 'dark' and a 'light' mode
ThemeNames == {"aurora", "ocean", "sunset", "forest"}

\* a value read from JSON or made by the code: a str, or JSON null
Str(v) == [type |-> "str", v |-> v]

JsonNull == [type |-> "null", v |-> ""]

\* the strings of six hexadecimal digits after '#'
IsHexColor(v) == \E i \in DOMAIN COLOR_PALETTE : COLOR_PALETTE[i] = v

\* get_color_with_alpha: the rgba string, or the exception that leaves it.
\* ValueError, IndexError and TypeError fall back to grey; a value that is no
\* str has no lstrip, which is an AttributeError.
get_color_with_alpha(color_hex, alpha) ==
    IF color_hex.type # "str" THEN [exc |-> "AttributeError", rgba |-> <<>>]
    ELSE IF IsHexColor(color_hex.v) THEN [exc |-> "", rgba |-> <<color_hex.v, alpha>>]
    ELSE [exc |-> "", rgba |-> <<"100, 100, 100", alpha>>]

\* str.lower() of the values of the live parameter
Lower(v) == IF v \in {"TRUE", "True", "true"} THEN "true" ELSE IF v = "FALSE" THEN "false" ELSE v

\* The loop over json.loads(params['signals'][0]), from item idx (from 0) on.
\* The right-hand side is evaluated first: sig.get of an item that is no
\* object is an AttributeError, which the except clause does not name; a
\* missing 'id' is a KeyError, which it does.  Either ends the loop and keeps
\* the entries made so far.
RECURSIVE SignalsLoop(_, _, _)
SignalsLoop(items, idx, signal_metadata) ==
    IF idx >= Len(items) THEN [exc |-> "", signal_metadata |-> signal_metadata]
    ELSE LET sig == items[idx + 1]
         IN  IF sig.kind # "object"
             THEN [exc |-> "AttributeError", signal_metadata |-> signal_metadata]
             ELSE IF sig.id = <<>>
             THEN [exc |-> "", signal_metadata |-> signal_metadata]
             ELSE SignalsLoop(items, idx + 1,
                    (sig.id[1] :>
                        [name |-> IF sig.name = <<>> THEN sig.id[1] ELSE sig.name[1],
                         color |-> IF sig.color = <<>>
                                   THEN Str(COLOR_PALETTE[(idx % Len(COLOR_PALETTE)) + 1])
                                   ELSE sig.color[1]])
                    @@ signal_metadata)

\* the try block about the signals parameter: text that is no JSON
\* (JSONDecodeError) and a document that cannot be iterated (TypeError) are
\* caught and leave the metadata empty
ParseSignals(doc) ==
    IF ~doc.json \/ ~doc.iterable THEN [exc |-> "", signal_metadata |-> <<>>]
    ELSE SignalsLoop(doc.items, 0, <<>>)

\* datetime.fromisoformat(text.replace('Z', '+00:00')) inside its try block:
\* the datetime, or the default the ValueError leaves
ParseDate(text, default) ==
    LET replaced == [text EXCEPT !.zone = IF @ = "Z" THEN "+00:00" ELSE @]
    IN  IF WellFormed(replaced) THEN fromisoformat(replaced) ELSE default

\* datetime.min (0001-01-01T00:00:00), in minutes
MinMinute == 0 - 719162 * 24 * 60

\* datetime - timedelta(minutes=tz_offset) raises OverflowError when the
\* result would lie before datetime.min
ShiftOverflows(dt, tz_offset) == dt.t \div 60 - tz_offset < MinMinute

\* the block about the tz parameter: ValueError (no integer) is caught and
\* leaves start and end as they are; OverflowError is not caught
ParseTimezone(tz, start, end) ==
    IF tz = <<>> \/ ~tz[1].integer THEN [exc |-> "", start |-> start, end |-> end]
    ELSE IF ShiftOverflows(start, tz[1].value) \/ ShiftOverflows(end, tz[1].value)
    THEN [exc |-> "OverflowError", start |-> start, end |-> end]
    ELSE [exc |-> "",
          start |-> [t |-> start.t - 60 * tz[1].value, aware |-> FALSE],
          end |-> [t |-> end.t - 60 * tz[1].value, aware |-> FALSE]]

\* None, and the str a parameter holds
None == <<>>

ParseRaised(exc) ==
    [exc |-> exc, signal_ids |-> <<>>, signal_metadata |-> <<>>, is_live |-> FALSE,
     start |-> NaiveAt(0), end |-> NaiveAt(0), theme_name |-> "", mode |-> "",
     highlight_id |-> None]

\* parse_query_params; clock is what datetime.now() returns
parse_query_params(search_, clock) ==
    LET dflt_end == NaiveAt(clock)
        dflt_start == PlusSeconds(dflt_end, 0 - DEFAULT_HOURS * 3600)
    IN
    IF search_.blank
    THEN [exc |-> "", signal_ids |-> <<>>, signal_metadata |-> <<>>, is_live |-> FALSE,
          start |-> dflt_start, end |-> dflt_end, theme_name |-> "aurora",
          mode |-> "dark", highlight_id |-> None]
    ELSE
    LET signal_ids ==
            IF search_.signal_id # <<>> THEN Split(search_.signal_id[1], ",") ELSE <<>>
        signals ==
            IF search_.signals # <<>> THEN ParseSignals(search_.signals[1])
            ELSE [exc |-> "", signal_metadata |-> <<>>]
        theme_name == IF search_.theme # <<>> THEN search_.theme[1] ELSE "aurora"
        mode == IF search_.mode # <<>> THEN search_.mode[1] ELSE "dark"
        is_live == IF search_.live # <<>> THEN Lower(search_.live[1]) = "true" ELSE FALSE
        start == IF search_.start # <<>> THEN ParseDate(search_.start[1], dflt_start)
                 ELSE dflt_start
        end == IF search_.end # <<>> THEN ParseDate(search_.end[1], dflt_end)
               ELSE dflt_end
        shifted == ParseTimezone(search_.tz, start, end)
        highlight_id ==
            IF search_.highlight # <<>>
                 /\ search_.highlight[1] \notin {<<"null">>, <<"undefined">>}
            THEN search_.highlight[1] ELSE None
    IN  IF signals.exc # "" THEN ParseRaised(signals.exc)
        ELSE IF shifted.exc # "" THEN ParseRaised(shifted.exc)
        ELSE [exc |-> "", signal_ids |-> signal_ids,
              signal_metadata |-> signals.signal_metadata, is_live |-> is_live,
              start |-> shifted.start, end |-> shifted.end, theme_name |-> theme_name,
              mode |-> mode, highlight_id |-> highlight_id]

\* what build_signal_traces has done after some passes of its loop
TracesSoFar(exc, chart_data, aggregation_level, calls, random) ==
    [exc |-> exc, chart_data |-> chart_data, aggregation_level |-> aggregation_level,
     calls |-> calls, random |-> random]

\* the for loop of build_signal_traces, from entry idx (from 0) on
RECURSIVE TraceLoop(_, _, _, _, _, _, _)
TraceLoop(signal_ids, signal_metadata, start, end, highlight_id, idx, acc) ==
    IF idx >= Len(signal_ids) THEN acc
    ELSE
    LET signal_id == signal_ids[idx + 1]
        data == generate_historical_signals(signal_id, start, end, acc.random)
        calls == Append(acc.calls, [signal_id |-> signal_id, start_time |-> start,
                                    end_time |-> end])
        aggregation_level ==
            IF data.ret # <<>> /\ acc.aggregation_level = None
            THEN <<data.ret[1].aggregation_level>> ELSE acc.aggregation_level
        known == signal_id \in DOMAIN signal_metadata
        color == IF known THEN signal_metadata[signal_id].color
                 ELSE Str(COLOR_PALETTE[(idx % Len(COLOR_PALETTE)) + 1])
        name == IF known THEN signal_metadata[signal_id].name ELSE signal_id
        dimmed == highlight_id # None /\ highlight_id # signal_id
        fill == get_color_with_alpha(color, IF dimmed THEN 5 ELSE ALPHA_TRANSPARENCY)
        line_color == IF dimmed THEN get_color_with_alpha(color, 20).rgba ELSE <<color.v>>
        trace ==
            [x |-> [i \in DOMAIN data.ret |-> data.ret[i].timestamp],
             y |-> [i \in DOMAIN data.ret |-> data.ret[i].value],
             customdata |-> [i \in DOMAIN data.ret |->
                                <<data.ret[i].min_value, data.ret[i].max_value>>],
             name |-> name,
             line_color |-> line_color,
             fillcolor |-> fill.rgba]
    IN  IF data.exc # ""
        THEN TracesSoFar(data.exc, acc.chart_data, acc.aggregation_level, calls, acc.random)
        ELSE IF fill.exc # ""
        THEN TracesSoFar(fill.exc, acc.chart_data, aggregation_level, calls,
                         Advance(acc.random, data.ndraws))
        ELSE TraceLoop(signal_ids, signal_metadata, start, end, highlight_id, idx + 1,
                TracesSoFar("", Append(acc.chart_data, trace),
                            aggregation_level, calls, Advance(acc.random, data.ndraws)))

\* build_signal_traces: (chart_data, aggregation_level), or the exception the
\* loop raised; with the Builder calls it made and the random source after them
build_signal_traces(signal_ids, signal_metadata, start, end, theme, highlight_id, random) ==
    TraceLoop(signal_ids, signal_metadata, start, end, highlight_id, 0,
              TracesSoFar("", <<>>, None, <<>>, random))

\* the theme and mode THEME_DEFINITIONS.get(.., aurora).get(.., dark) yields
ThemeConfig(theme_name, mode) ==
    [theme |-> IF theme_name \in ThemeNames THEN theme_name ELSE "aurora",
     mode |-> IF mode \in {"dark", "light"} THEN mode ELSE "dark"]

\* get_empty_chart: the figure and the timer's disabled flag
get_empty_chart(theme_config) ==
    [figure |-> [data |-> <<>>, title |-> <<"No signals selected">>, theme |-> theme_config],
     disabled |-> TRUE]

\* get_chart_figure: the figure and the timer's disabled flag
get_chart_figure(chart_data, signal_ids, aggregation_level, start, end, is_live, theme_config) ==
    [figure |->
        [data |-> chart_data,
         title |-> <<Len(signal_ids),
                     IF Minus(end, start) > 12 * 3600 THEN "%b %d %H:%M" ELSE "%H:%M",
                     isoformat(start), isoformat(end)>>,
         theme |-> theme_config],
     disabled |-> ~is_live]

\* what an update_chart call did: the exception it raised ("" for none), the
\* outputs it returned, what parse_query_params gave it, whether it called
\* build_signal_traces and what that did
Update(exc, outputs, parsed, built, traces) ==
    [exc |-> exc, outputs |-> outputs, parsed |-> parsed, built |-> built,
     traces |-> traces]

NoOutputs == <<>>

update_chart(search_, clock, random) ==
    LET parsed == parse_query_params(search_, clock)
        theme_config == ThemeConfig(parsed.theme_name, parsed.mode)
        idle == TracesSoFar("", <<>>, None, <<>>, random)
        traces == build_signal_traces(parsed.signal_ids, parsed.signal_metadata,
                                      parsed.start, parsed.end, theme_config,
                                      parsed.highlight_id, random)
    IN  IF parsed.exc # "" THEN Update(parsed.exc, NoOutputs, parsed, FALSE, idle)
        ELSE IF parsed.signal_ids = <<>>
        THEN Update("", <<get_empty_chart(theme_config)>>, parsed, FALSE, idle)
        ELSE IF traces.exc # "" THEN Update(traces.exc, NoOutputs, parsed, TRUE, traces)
        ELSE IF Mixed(parsed.end, parsed.start)
        THEN Update("TypeError", NoOutputs, parsed, TRUE, traces)
        ELSE Update("",
                <<get_chart_figure(traces.chart_data, parsed.signal_ids,
                                   traces.aggregation_level, parsed.start, parsed.end,
                                   parsed.is_live, theme_config)>>,
                parsed, TRUE, traces)

---------------------------------------------------------------------------
(* The inputs of the model *)

\* 2024-01-01T12:30:45
Starts == {19723 * SecondsPerDay + 45045}

\* end - start: a negative span, the spans about 0 and 1 minute, 30 minutes,
\* 2 days, 366 days, and those from 8 days on
Spans ==
    {-SecondsPerDay, 30 * 60, 2 * SecondsPerDay, 366 * SecondsPerDay}
    \cup {t + k : t \in {0, 60}, k \in (0 - Slack)..Slack}
    \cup {8 * SecondsPerDay + k : k \in 0..Slack}

\* "Pressure_A1" (base 1013) and "Vibration" (no base of its own: 50)
SignalIds == {<<"Pressure", "_", "A1">>, <<"Vibration">>}

\* standard normal deviates, in ten-thousandths: with sigma = 10 and base 50
\* they give -10 (clamped to 0), 60.005 (a rounding tie on the "high"
\* threshold) and 90.01; base 1013 gives values clamped to 100
ZScores == {-60000, 10005, 40010}

Streams == [1..RngPeriod -> ZScores]

\* the durations given to the planner: whole days, and a second either side
Durations ==
    {d * SecondsPerDay + k : d \in (0 - 2)..367, k \in (0 - Slack)..Slack}

\* the wall clock when the page loads: 2024-01-01T12:30:45
Now0 == 19723 * SecondsPerDay + 45045

\* the text of a date parameter: isoformat() text, with 'Z' appended or not
IsoText(t, suffix) ==
    [date |-> t \div SecondsPerDay, time |-> t % SecondsPerDay, zone |-> suffix]

\* a date parameter that is no date
Garbled == [date |-> 0, time |-> 0, zone |-> "?"]

\* the start parameter: absent, 2 minutes before Now0 (plain, or with 'Z'), garbled
StartParams ==
    {<<>>, <<IsoText(Now0 - 120, "")>>, <<IsoText(Now0 - 120, "Z")>>, <<Garbled>>}

\* the end parameter: absent, 3 minutes after the default start (plain, or
\* with 'Z'), garbled
EndParams ==
    {<<>>, <<IsoText(Now0 - DEFAULT_HOURS * 3600 + 180, "")>>,
     <<IsoText(Now0 - DEFAULT_HOURS * 3600 + 180, "Z")>>, <<Garbled>>}

\* the tz parameter: absent, "60", text that is no integer, and an integer
\* of minutes that reaches back before year 1
TzParams ==
    {<<>>, <<[integer |-> TRUE, value |-> 60]>>, <<[integer |-> FALSE, value |-> 0]>>,
     <<[integer |-> TRUE, value |-> 1100000000]>>}

\* ",".join(ids)
RECURSIVE Join(_)
Join(ids) ==
    IF Len(ids) = 1 THEN ids[1] ELSE ids[1] \o <<",">> \o Join(Tail(ids))

\* the signal_id parameter: absent, or up to MaxIds ids joined by commas
IdParams ==
    {<<>>} \cup {<<Join(ids)>> : ids \in UNION {[1..n -> SignalIds] : n \in 1..MaxIds}}

JsonObject(id, name, color) == [kind |-> "object", id |-> id, name |-> name, color |-> color]

JsonNumber == [kind |-> "number", id |-> <<>>, name |-> <<>>, color |-> <<>>]

JsonArray(items) == [json |-> TRUE, iterable |-> TRUE, items |-> items]

\* the signals parameter: absent; text that is no JSON; an array of one
\* object with a name and a colour; one whose colour is null; one with an
\* object that has no id after one that has; one that holds a number
SignalsParams ==
    {<<>>,
     <<[json |-> FALSE, iterable |-> FALSE, items |-> <<>>]>>,
     <<JsonArray(<<JsonObject(<<<<"Vibration">>>>, <<<<"Vib">>>>, <<Str("#16a34a")>>)>>)>>,
     <<JsonArray(<<JsonObject(<<<<"Vibration">>>>, <<>>, <<JsonNull>>)>>)>>,
     <<JsonArray(<<JsonObject(<<<<"Vibration">>>>, <<>>, <<Str("hsl(1, 2%, 3%)")>>),
                   JsonObject(<<>>, <<<<"x">>>>, <<>>)>>)>>,
     <<JsonArray(<<JsonNumber>>)>>}

\* the search of a page opened with no query
BlankSearch ==
    [blank |-> TRUE, signal_id |-> <<>>, signals |-> <<>>, theme |-> <<>>, mode |-> <<>>,
     live |-> <<>>, start |-> <<>>, end |-> <<>>, tz |-> <<>>, highlight |-> <<>>]

\* requests for one signal, with every start, end and tz parameter
TimeSearches ==
    {[BlankSearch EXCEPT !.blank = FALSE, !.signal_id = <<<<"Vibration">>>>,
                         !.start = s, !.end = e, !.tz = z] :
        s \in StartParams, e \in EndParams, z \in TzParams}

\* requests over 3 minutes, with every list of ids, metadata, highlight and theme
TraceSearches ==
    {[BlankSearch EXCEPT !.blank = FALSE, !.signal_id = ids, !.signals = m,
                         !.highlight = h, !.theme = t,
                         !.start = <<IsoText(Now0 - 300, "")>>,
                         !.end = <<IsoText(Now0 - 120, "")>>] :
        ids \in IdParams, m \in SignalsParams,
        h \in {<<>>, <<<<"Vibration">>>>, <<<<"null">>>>}, t \in {<<>>, <<"ocean">>}}

\* requests over 3 minutes, with and without a signal, with every live parameter
LiveSearches ==
    {[BlankSearch EXCEPT !.blank = FALSE, !.signal_id = ids, !.live = l, !.signals = m,
                         !.mode = <<"light">>,
                         !.start = <<IsoText(Now0 - 300, "")>>,
                         !.end = <<IsoText(Now0 - 120, "")>>] :
        ids \in {<<>>, <<<<"Vibration">>>>},
        l \in {<<>>, <<"true">>, <<"TRUE">>, <<"false">>, <<"1">>},
        m \in {<<>>, <<JsonArray(<<JsonNumber>>)>>}}

Searches == {BlankSearch} \cup TimeSearches \cup TraceSearches \cup LiveSearches

\* the random source of the server: it yields one deviate over and over
AppSeeds == {[draws |-> <<z>>, pos |-> 0, half_up |-> FALSE] : z \in {10005}}

---------------------------------------------------------------------------
(* The state machine *)

NoPlan == [duration |-> 0, ret |-> <<"none">>]

NotCalled == [exc |-> "", ret |-> <<>>, ndraws |-> 0, calls |-> 0, first |-> 0]

\* the part of a series that does not hang on the samples drawn
Structure(ret) ==
    [i \in DOMAIN ret |->
        [timestamp |-> ret[i].timestamp,
         aggregation_level |-> ret[i].aggregation_level,
         sample_count |-> ret[i].sample_count]]

\* no update_chart call has returned
NoUpdate ==
    [exc |-> "", outputs |-> NoOutputs, parsed |-> ParseRaised(""), built |-> FALSE,
     traces |-> TracesSoFar("", <<>>, None, <<>>, rng)]

\* the page is not open
AppIdle ==
    /\ search = BlankSearch
    /\ now = Now0
    /\ n_intervals = 0
    /\ disabled = FALSE
    /\ pending = FALSE
    /\ update = NoUpdate

InitPlanner ==
    /\ plan \in {[duration |-> d, ret |-> <<>>] : d \in Durations}
    /\ call = <<>>
    /\ result = NotCalled
    /\ previous = <<>>
    /\ rng = [draws |-> <<0>>, pos |-> 0, half_up |-> FALSE]
    /\ AppIdle

InitBuilder ==
    /\ plan = NoPlan
    /\ call \in {<<[signal_id |-> sid, start_time |-> NaiveAt(s),
                     end_time |-> NaiveAt(s + d)]>> :
                    sid \in SignalIds, s \in Starts, d \in Spans}
    /\ result = NotCalled
    /\ previous = <<>>
    /\ rng \in {[draws |-> z, pos |-> 0, half_up |-> h] :
                  z \in Streams, h \in BOOLEAN}
    /\ AppIdle

Init == InitPlanner \/ InitBuilder

\* a caller asks the planner for the level of a duration
Plan ==
    /\ plan.ret = <<>>
    /\ plan' = [plan EXCEPT !.ret = get_aggregation_level(plan.duration)]
    /\ UNCHANGED <<call, result, previous, rng>>
    /\ UNCHANGED appvars

\* a caller builds the series of call's arguments: the first time, or once again
Generate ==
    /\ call # <<>>
    /\ result.calls < 2
    /\ LET r == generate_historical_signals(
                    call[1].signal_id, call[1].start_time, call[1].end_time, rng)
       IN  /\ result' = [exc |-> r.exc, ret |-> r.ret, ndraws |-> r.ndraws,
                          calls |-> result.calls + 1, first |-> rng.pos]
           /\ rng' = Advance(rng, r.ndraws)
    /\ previous' = IF result.calls > 0 THEN <<Structure(result.ret)>> ELSE <<>>
    /\ UNCHANGED <<plan, call>>
    /\ UNCHANGED appvars

Next == Plan \/ Generate

Spec == Init /\ [][Next]_vars

\* the page loads with no query; Dash runs the callback once
AppInit ==
    /\ plan = NoPlan
    /\ call = <<>>
    /\ result = NotCalled
    /\ previous = <<>>
    /\ rng \in AppSeeds
    /\ search = BlankSearch
    /\ now = Now0
    /\ n_intervals = 0
    /\ disabled = FALSE
    /\ pending = TRUE
    /\ update = NoUpdate

\* the embedding page gives the frame another query: Input('url', 'search')
Navigate ==
    /\ ~pending
    /\ \E s \in Searches \ {search} : search' = s
    /\ pending' = TRUE
    /\ update' = NoUpdate
    /\ UNCHANGED <<now, n_intervals, disabled, rng>>
    /\ UNCHANGED genvars

\* the timer, unless disabled, fires after its interval:
\* Input('interval-component', 'n_intervals')
IntervalFires ==
    /\ ~pending
    /\ ~disabled
    /\ n_intervals < MaxTicks
    /\ n_intervals' = n_intervals + 1
    /\ now' = now + PollSeconds
    /\ pending' = TRUE
    /\ update' = NoUpdate
    /\ UNCHANGED <<search, disabled, rng>>
    /\ UNCHANGED genvars

\* Dash runs update_chart and sets the outputs it returns; when it raises,
\* the outputs keep their values
UpdateChart ==
    /\ pending
    /\ LET u == update_chart(search, now, rng)
       IN  /\ update' = u
           /\ disabled' = IF u.exc = "" THEN u.outputs[1].disabled ELSE disabled
           /\ rng' = u.traces.random
    /\ pending' = FALSE
    /\ UNCHANGED <<search, now, n_intervals>>
    /\ UNCHANGED genvars

AppNext == Navigate \/ IntervalFires \/ UpdateChart

AppSpec == AppInit /\ [][AppNext]_vars

---------------------------------------------------------------------------
(* Properties of the planner and of the builder *)

\* the row of the plan table a span of so many seconds falls in, by the
\* seconds the span must reach: more than 365 whole days is 366 days or more
TableRow(seconds) ==
    IF seconds >= 366 * SecondsPerDay THEN <<604800, "weekly", 7>>
    ELSE IF seconds >= 8 * SecondsPerDay THEN <<86400, "daily", 6>>
    ELSE IF seconds >= 2 * SecondsPerDay THEN <<3600, "hourly", 4>>
    ELSE <<60, "minutely", 2>>

Planned == Len(plan.ret) = 3

Built == result.calls > 0

Args == call[1]

Span == Minus(Args.end_time, Args.start_time)

Series == result.ret

TimeOf(point) == fromisoformat(point.timestamp).t

\* the random source as the last call found it
CallRng == [rng EXCEPT !.pos = result.first]

\* the samples behind the i-th point of the series the last call returned
SamplesOf(i) ==
    SampleValues(signal_base_values(BaseKey(Args.signal_id)), Series[i].sample_count,
                 CallRng, i - 1)

CriticalIn(samples) == Cardinality({j \in DOMAIN samples : samples[j] > 9000})

HighIn(samples) ==
    Cardinality({j \in DOMAIN samples : samples[j] > 6000 /\ samples[j] <= 9000})

C2_SeriesSpansRange ==
    (Built /\ Span > 0) =>
        /\ result.exc = ""
        /\ Len(Series) > 0
        /\ fromisoformat(Series[1].timestamp) = Args.start_time
        /\ \A i \in 1..(Len(Series) - 1) :
              TimeOf(Series[i + 1]) - TimeOf(Series[i]) = TableRow(Span)[1]
        /\ TimeOf(Series[Len(Series)]) < Args.end_time.t

C2_Witness ==
    /\ Built
    /\ Len(Series) = 9
    /\ Series[1].timestamp.date # Series[2].timestamp.date
    /\ TimeOf(Series[9]) = Args.end_time.t - 1

\* C3: every point of every series has min_value <= value <= max_value, and
\* its value and bounds lie in [0, 100]; the value is the mean of the clamped
\* samples rounded to 2 decimals, the bounds are their least and greatest.
C3_ValueWithinBounds ==
    Built =>
        \A i \in 1..Len(Series) :
            LET p == Series[i]
                samples == SamplesOf(i)
                total == SeqSum(samples)
            IN  /\ p.min_value <= p.value /\ p.value <= p.max_value
                /\ 0 <= p.min_value /\ p.max_value <= 10000
                /\ 0 <= p.value /\ p.value <= 10000
                /\ \A j \in DOMAIN samples : p.min_value <= samples[j] /\ samples[j] <= p.max_value
                /\ \E j \in DOMAIN samples : p.min_value = samples[j]
                /\ \E j \in DOMAIN samples : p.max_value = samples[j]
                /\ 2 * p.sample_count * p.value >= 2 * total - p.sample_count
                /\ 2 * p.sample_count * p.value <= 2 * total + p.sample_count

C3_Witness ==
    /\ Built
    /\ \E i \in 1..Len(Series) :
          /\ Series[i].min_value = 0
          /\ Series[i].min_value < Series[i].value
          /\ Series[i].value < Series[i].max_value
          /\ Series[i].sample_count = 7
    /\ \E d \in 0..6 :
          gauss(signal_base_values(BaseKey(Args.signal_id)), 10, Draw(CallRng, d)) < 0

\* C4: when end <= start (a negative span too) the builder returns the empty
\* series, raises nothing and draws no sample.
C4_EmptyWhenNoSpan ==
    (Built /\ Span <= 0) =>
        /\ result.exc = ""
        /\ Series = <<>>
        /\ result.ndraws = 0

C4_Witness == Built /\ Span < 0 /\ Series = <<>> /\ result.calls = 2

C6_PointCount ==
    Built =>
        LET row == TableRow(Span)
        IN  /\ Len(Series) = IF Span <= 0 THEN 0 ELSE (Span + row[1] - 1) \div row[1]
            /\ \A i \in 1..Len(Series) :
                  /\ Series[i].aggregation_level = row[2]
                  /\ Series[i].sample_count = row[3]
            /\ Span = 2 * SecondsPerDay =>
                  /\ Len(Series) = 48
                  /\ \A i \in 1..48 :
                        Series[i].aggregation_level = "hourly" /\ Series[i].sample_count = 4
            /\ Span = 30 * 60 =>
                  /\ Len(Series) = 30
                  /\ \A i \in 1..30 :
                        Series[i].aggregation_level = "minutely" /\ Series[i].sample_count = 2

C6_Witness ==
    Built /\ Span = 2 * SecondsPerDay /\ Len(Series) = 48 /\ Series[48].sample_count = 4

\* C7: two calls with the same arguments return series of the same length
\* with the same timestamp, level and sample count at each place, whatever
\* the samples drawn in either.
C7_SameStructure ==
    (Built /\ previous # <<>>) => previous[1] = Structure(Series)

\* the second call drew other samples than the first and returned other values
C7_Witness ==
    /\ Built
    /\ previous # <<>>
    /\ Len(Series) = 53
    /\ Draw(CallRng, 0) # Draw([rng EXCEPT !.pos = 0], 0)
    /\ Series[1].value # Series[2].value

---------------------------------------------------------------------------
(* Properties of the query interpreter and of the trace builder *)

\* an update_chart call has returned or raised, and none is due
Updated == ~pending /\ (update.exc # "" \/ update.outputs # NoOutputs)

Parsed == update.parsed

BuilderCalls == update.traces.calls

\* the timestamps the Builder gives for a signal id over the parsed range
TimestampsFor(signal_id) ==
    LET data == generate_historical_signals(signal_id, Parsed.start, Parsed.end, rng)
    IN  [i \in DOMAIN data.ret |-> data.ret[i].timestamp]

\* C8: the start and end that update_chart gets from parse_query_params and
\* hands to the Builder are timezone-naive, whatever start, end and tz
\* parameters the query holds, so the Builder never fails on a mix of a naive
\* and an aware datetime.
C8_BuilderGetsNaiveInstants ==
    Updated =>
        /\ Parsed.exc = "" => (~Parsed.start.aware /\ ~Parsed.end.aware)
        /\ \A i \in DOMAIN BuilderCalls :
              ~BuilderCalls[i].start_time.aware /\ ~BuilderCalls[i].end_time.aware
        /\ update.built => update.traces.exc # "TypeError"

\* C9: parse_query_params never raises: a malformed signals, start, end or tz
\* parameter leaves its field at the default (no metadata, the range from 24
\* hours ago to now) and no error of parsing reaches update_chart.
C9_ParseNeverRaises ==
    Updated =>
        /\ Parsed.exc = ""
        /\ (search.start = <<Garbled>> /\ search.tz = <<>>) =>
              Parsed.start = NaiveAt(now - DEFAULT_HOURS * 3600)
        /\ (search.end = <<Garbled>> /\ search.tz = <<>>) => Parsed.end = NaiveAt(now)
        /\ (search.signals # <<>> /\ ~search.signals[1].json) =>
              Parsed.signal_metadata = <<>>

\* C10: build_signal_traces calls the Builder once for each entry of the list
\* of ids and returns one trace for each, in the order asked, for repeated
\* ids and empty series too; highlight, theme and metadata change colours
\* and names, never the number, order or timestamps of the traces.
C10_OneTracePerId ==
    (Updated /\ update.built /\ ~Mixed(Parsed.end, Parsed.start)) =>
        /\ update.traces.exc = ""
        /\ Len(BuilderCalls) = Len(Parsed.signal_ids)
        /\ Len(update.traces.chart_data) = Len(Parsed.signal_ids)
        /\ \A i \in DOMAIN Parsed.signal_ids :
              /\ BuilderCalls[i].signal_id = Parsed.signal_ids[i]
              /\ update.traces.chart_data[i].x = TimestampsFor(Parsed.signal_ids[i])

\* the query in the frame names a signal id and has live=true in any case of
\* letters
RequestIsLive ==
    /\ ~search.blank
    /\ search.signal_id # <<>>
    /\ search.live # <<>>
    /\ Lower(search.live[1]) = "true"

\* C11: after every update_chart call, for a new query or for a tick of the
\* timer, the timer's disabled flag is false exactly when the query names a
\* signal id and its live parameter is "true"; so the timer runs only while
\* the latest query is a live one with signals.
C11_PollingOnlyWhenLive ==
    ~pending => (disabled <=> ~RequestIsLive)

===========================================================================
